---- MODULE Spec2Model ----
(***************************************************************************)
(* State-machine model of src/app.py (Company Agent, a Streamlit front     *)
(* end): the session state, the handlers that one script run executes for  *)
(* one user event, the crawl form, the chat, and the asyncio batch helpers. *)
(* Every backend answer is a nondeterministic input of the run that        *)
(* consumes it.                                                            *)
(***************************************************************************)
EXTENDS Integers, Sequences, FiniteSets, TLC

VARIABLES
    authenticated,  \* st.session_state.authenticated
    access_token,   \* st.session_state.access_token
    companies,      \* st.session_state.companies
    app_mode,       \* st.session_state.app_mode
    messages,       \* st.session_state.messages
    sent,           \* the requests of the latest script run, with their answers
    last,           \* the user event of the latest script run and what it showed
    form,           \* the values standing in the widgets of the crawl form
    batch           \* the running (or finished) call of fetch_qa_responses

vars == <<authenticated, access_token, companies, app_mode, messages,
          sent, last, form, batch>>

----------------------------------------------------------------------------
(* Bounds of the model *)

\* longest text typed into the "Company Domains" text area
MaxLen == 3
\* longest chat history a run may still append to
MaxMessages == 4
\* longest domains_list handed to fetch_qa_responses
MaxDomains == 2

----------------------------------------------------------------------------
(* Python values *)

None == "None"

\* dict.get(key, default); a dict is a record, {} is the empty function
Get(d, k, default) == IF k \in DOMAIN d THEN d[k] ELSE default

\* None where a text (a sequence of characters) may stand
NoText == <<None>>

\* truthiness of an optional string: None and "" are falsy
Truthy(x) == x # None /\ x # ""

\* truthiness of an optional text
TruthyText(x) == x # NoText /\ x # <<>>

\* all sequences over S of length at most n
SeqUpTo(S, n) == UNION {[1..k -> S] : k \in 0..n}

\* no element occurs twice
NoDuplicates(q) == \A i, j \in 1..Len(q) : q[i] = q[j] => i = j

----------------------------------------------------------------------------
(* Text: a string is a sequence of characters *)

Newline == "\n"
Whitespace == {" ", Newline}
Chars == {"a", "b", " ", Newline}

\* str.strip(): drop leading and trailing whitespace
RECURSIVE LStrip(_)
LStrip(t) == IF t # <<>> /\ Head(t) \in Whitespace THEN LStrip(Tail(t)) ELSE t

RECURSIVE RStrip(_)
RStrip(t) ==
    IF t # <<>> /\ t[Len(t)] \in Whitespace
    THEN RStrip(SubSeq(t, 1, Len(t) - 1))
    ELSE t

Strip(t) == RStrip(LStrip(t))

\* str.split("\n"): always at least one piece, empty pieces kept
RECURSIVE SplitFrom(_, _, _)
SplitFrom(t, i, cur) ==
    IF i > Len(t) THEN <<cur>>
    ELSE IF t[i] = Newline THEN <<cur>> \o SplitFrom(t, i + 1, <<>>)
    ELSE SplitFrom(t, i + 1, Append(cur, t[i]))

Split(t) == SplitFrom(t, 1, <<>>)

----------------------------------------------------------------------------
(* The backend: every answer is an input of the run that consumes it *)

\* requests.post raised (connection error, timeout)
Raised == [exc |-> TRUE, status |-> 0, data |-> None]
\* requests.post returned a response
Http(status, data) == [exc |-> FALSE, status |-> status, data |-> data]

Tokens == {"tokA", "tokB"}
FailStatus == {401, 500}
\* response.text of a failure
FailText == "denied"

Acme == [company_name |-> "Acme", company_domain |-> "acme.com"]
Beta == [company_name |-> "Beta", company_domain |-> "beta.com"]
\* a directory entry whose domain is empty
Ghost == [company_name |-> "Ghost", company_domain |-> ""]
Directories == {<<>>, <<Acme>>, <<Acme, Beta>>, <<Ghost>>}

Failures == {Http(c, FailText) : c \in FailStatus} \cup {Raised}
AuthResponses == {Http(200, [access |-> t]) : t \in Tokens} \cup Failures
DirResponses == {Http(200, [companies |-> d]) : d \in Directories} \cup Failures
CrawlResponses == {Http(200, [message |-> "accepted"])} \cup Failures
\* the answer of /company_qa/ to a request: about its domain and its query
Answer(payload) ==
    [output |-> <<"about", payload.company_domain, payload.qa_dict.query>>]
QAResponses(payload, failures) == {Http(200, Answer(payload))} \cup failures
\* stands for the answer of a call that is not made
NoCall == [exc |-> FALSE, status |-> -1, data |-> None]

Credentials == {[username |-> "username", password |-> "password"],
                [username |-> "alice", password |-> "secret"]}

\* one request and what came back
Exchange(url, token, payload, resp) ==
    [url |-> url, token |-> token, payload |-> payload, resp |-> resp]

OK(resp) == ~resp.exc /\ resp.status = 200

----------------------------------------------------------------------------
(* The session: st.session_state, with the requests of the current run *)

Session ==
    [authenticated |-> authenticated, access_token |-> access_token,
     companies |-> companies, app_mode |-> app_mode, messages |-> messages,
     sent |-> <<>>, notices |-> <<>>]

\* st.error / st.sidebar.error / st.success: what the run shows the user
Notice(s, text) == [s EXCEPT !.notices = Append(@, text)]

\* a fetch that adds the received companies to the list it holds
fetch_companies_appending(s, resp) ==
    IF ~s.authenticated
    THEN s
    ELSE LET s1 == [s EXCEPT !.sent =
                        Append(@, Exchange("/company_list/", s.access_token,
                                           <<>>, resp))]
         IN  IF resp.exc
             THEN Notice(s1, "Error fetching companies")
             ELSE IF resp.status = 200
             THEN [s1 EXCEPT !.companies =
                       @ \o Get(resp.data, "companies", <<>>)]
             ELSE Notice(s1, "Failed to fetch companies")

\* app.py:77-97
fetch_companies(s, resp) ==
    IF ~s.authenticated
    THEN s
    ELSE LET s1 == [s EXCEPT !.sent =
                        Append(@, Exchange("/company_list/", s.access_token,
                                           <<>>, resp))]
         IN  IF resp.exc
             THEN Notice(s1, "Error fetching companies")
             ELSE IF resp.status = 200
             THEN [s1 EXCEPT !.companies = Get(resp.data, "companies", <<>>)]
             ELSE Notice(s1, "Failed to fetch companies")

\* app.py:39-73
authenticate(s, cred, resp, dirResp) ==
    LET s1 == [s EXCEPT !.sent =
                   Append(@, Exchange("/auth/token/", None, cred, resp))]
    IN  IF resp.exc
        THEN [Notice(s1, "Authentication error") EXCEPT
                  !.authenticated = FALSE]
        ELSE IF resp.status = 200
        THEN fetch_companies(
                 [s1 EXCEPT !.access_token = Get(resp.data, "access", None),
                            !.authenticated = TRUE],
                 dirResp)
        ELSE [Notice(s1, "Authentication failed") EXCEPT
                  !.authenticated = FALSE]

\* app.py:128-144: the mode radio; choice is the mode the radio shows
select_mode(s, choice, dirResp) ==
    LET s1 == IF choice # s.app_mode /\ choice = "Ask Question"
                 /\ s.authenticated
              THEN fetch_companies(s, dirResp)
              ELSE s
    IN  [s1 EXCEPT !.app_mode = choice]

\* app.py:333-337
domain_options(s) ==
    LET keep(c) == Truthy(Get(c, "company_domain", None))
        picked == SelectSeq(s.companies, keep)
    IN  [i \in 1..Len(picked) |-> Get(picked[i], "company_domain", "")]

\* app.py:324-329: the head of the Ask Question page
ask_page(s, dirResp) ==
    IF ~s.authenticated
    THEN s
    ELSE IF s.companies = <<>> THEN fetch_companies(s, dirResp) ELSE s

\* app.py:324-342: the chat widgets are on the page
ChatShown(s) ==
    /\ s.app_mode = "Ask Question"
    /\ s.authenticated
    /\ s.companies # <<>>
    /\ domain_options(s) # <<>>

\* the rest of a script run after the sidebar, when no form or chat input
\* was submitted (app.py:214, 320-329)
page(s, dirResp) ==
    IF s.app_mode = "Ask Question" THEN ask_page(s, dirResp) ELSE s

\* whether page(s, _) asks the backend for the company list
PageFetches(s) ==
    s.app_mode = "Ask Question" /\ s.authenticated /\ s.companies = <<>>

----------------------------------------------------------------------------
(* The chat (app.py:377-483). A message's content is a sequence of words. *)

\* the warning sign that opens the content of an error entry
\* (app.py:466, 476)
WarningMarker == "(!)"

Prompts == {"Q1"}

\* app.py:392-406, with the sidebar's default values
qa_dict(query) ==
    [query |-> query,
     llm_kwargs |-> [model_name |-> "gemini-2.0-flash", temperature |-> "0.1"],
     vectorstore_kwargs |-> [k |-> 30, use_reranker |-> TRUE, rerank_top_n |-> 10],
     recursion_limit |-> 25]

\* app.py:414-419, 500
qa_payload(domain, qa) == [company_domain |-> domain, qa_dict |-> qa]

\* app.py:425-458: the entry appended for a 200 answer
answer_entry(prompt, selected_domain, data) ==
    LET answer == Get(data, "output", <<"No answer available">>)
    IN  [role |-> "assistant",
         content |-> answer,
         json_output |-> [query |-> prompt, response |-> answer,
                          company_domain |-> selected_domain,
                          timestamp |-> "now", full_response |-> data]]

\* app.py:459-468: the entry appended for a non-200 answer
status_error_entry(resp) ==
    [role |-> "assistant",
     content |-> <<WarningMarker, "Error:", ToString(resp.status), "-",
                   resp.data>>]

\* an entry for a raised call that lacks the warning sign
exception_entry_unmarked(resp) ==
    [role |-> "assistant",
     content |-> <<"Error getting answer:", "exception">>]

\* app.py:469-478: the entry appended when the call raised
exception_entry(resp) ==
    [role |-> "assistant",
     content |-> <<WarningMarker, "Error getting answer:", "exception">>]

\* app.py:377-478: a submitted chat input
chat_submit(s, prompt, selected_domain, resp) ==
    LET s1 == [s EXCEPT !.messages =
                   Append(@, [role |-> "user", content |-> <<prompt>>])]
        s2 == [s1 EXCEPT !.sent =
                   Append(@, Exchange("/company_qa/", s.access_token,
                                      qa_payload(selected_domain, qa_dict(prompt)),
                                      resp))]
    IN  IF resp.exc
        THEN [Notice(s2, "Error getting answer") EXCEPT
                  !.messages = Append(@, exception_entry(resp))]
        ELSE IF resp.status = 200
        THEN [s2 EXCEPT !.messages =
                  Append(@, answer_entry(prompt, selected_domain, resp.data))]
        ELSE [Notice(s2, "Error") EXCEPT
                  !.messages = Append(@, status_error_entry(resp))]

\* a clear that removes the latest question and its answer only
clear_chat_last_pair(s) ==
    [s EXCEPT !.messages = SubSeq(@, 1, Len(@) - 2)]

\* app.py:481-483
clear_chat(s) == [s EXCEPT !.messages = <<>>]

\* app.py:481: the Clear Chat History button is on the page
ClearShown(s) == ChatShown(s) /\ s.messages # <<>>

----------------------------------------------------------------------------
(* The crawl form (app.py:219-306) *)

CrawlTypes == {"Lite Crawl", "Custom Prompt"}
PromptTexts == {<<>>, <<"p">>, <<" ">>}

\* app.py:230-236: the prompt the form hands to the handler
custom_prompt_of(crawl_type, typed) ==
    IF crawl_type = "Custom Prompt" THEN typed ELSE NoText

\* a parse that strips the lines and keeps the blank ones
parse_domains_keeping_blank(company_domains) ==
    LET lines == Split(company_domains)
    IN  [i \in 1..Len(lines) |-> Strip(lines[i])]

\* app.py:250-254
parse_domains(company_domains) ==
    LET lines == Split(company_domains)
        keep(d) == Strip(d) # <<>>
        kept == SelectSeq(lines, keep)
    IN  [i \in 1..Len(kept) |-> Strip(kept[i])]

\* a payload that carries the prompt key in every mode
crawl_payload_with_prompt(domains_list, crawl_type, custom_prompt) ==
    [company_domains |-> domains_list,
     lite_crawl |-> (crawl_type = "Lite Crawl"),
     prompt |-> custom_prompt]

\* app.py:266-273
crawl_payload(domains_list, crawl_type, custom_prompt) ==
    LET payload == [company_domains |-> domains_list,
                    lite_crawl |-> (crawl_type = "Lite Crawl")]
    IN  IF crawl_type = "Custom Prompt" /\ TruthyText(custom_prompt)
        THEN [company_domains |-> payload.company_domains,
              lite_crawl |-> payload.lite_crawl,
              prompt |-> custom_prompt]
        ELSE payload

\* app.py:241-306: the Start Crawling button
crawl_submit(s, company_domains, crawl_type, custom_prompt, resp) ==
    IF ~s.authenticated
    THEN Notice(s, "Please authenticate first!")
    ELSE IF company_domains = <<>>
    THEN Notice(s, "Please enter at least one company domain")
    ELSE IF crawl_type = "Custom Prompt" /\ ~TruthyText(custom_prompt)
    THEN Notice(s, "Please enter a custom prompt")
    ELSE LET domains_list == parse_domains(company_domains)
         IN  IF domains_list # <<>>
             THEN LET s1 == [s EXCEPT !.sent =
                                 Append(@, Exchange("/company_crawl/",
                                     s.access_token,
                                     crawl_payload(domains_list, crawl_type,
                                                   custom_prompt),
                                     resp))]
                  IN  IF resp.exc
                      THEN Notice(s1, "Error submitting crawl request")
                      ELSE IF resp.status = 200
                      THEN Notice(s1, "Crawling request submitted successfully!")
                      ELSE Notice(s1, "Failed to submit crawl request")
             ELSE Notice(s, "No valid domains found")

\* whether crawl_submit reaches requests.post
CrawlSends(s, company_domains, crawl_type, custom_prompt) ==
    /\ s.authenticated
    /\ company_domains # <<>>
    /\ ~(crawl_type = "Custom Prompt" /\ ~TruthyText(custom_prompt))
    /\ parse_domains(company_domains) # <<>>

----------------------------------------------------------------------------
(* The batch helpers (app.py:493-528).  asyncio.gather runs its awaitables *)
(* concurrently: the requests complete one by one, in any order.           *)

\* the answer of a request that has not completed
Pending == [exc |-> FALSE, status |-> -2, data |-> None]

\* app.py:498-506: the requests of one domain, in the order of qa_list
company_tasks(company_domain, qa_list, token) ==
    [j \in 1..Len(qa_list) |->
        Exchange("/company_qa/", token,
                 qa_payload(company_domain, qa_list[j]), Pending)]

\* a gather that hands the results back in the order of completion
gather_as_completed(results, completion) ==
    [k \in 1..Len(completion) |-> results[completion[k]]]

\* asyncio.gather(*tasks) without return_exceptions: the results in the
\* order of the awaitables, whatever the order of completion
gather(results, completion) == results

\* asyncio.gather raises as soon as one awaitable has raised
GatherRaises(tasks) == \E j \in 1..Len(tasks) : tasks[j].resp.exc

GatherReady(tasks) ==
    \A j \in 1..Len(tasks) : tasks[j].resp # Pending /\ ~tasks[j].resp.exc

\* app.py:509-515
company_results(responses) ==
    [j \in 1..Len(responses) |->
        IF responses[j].status = 200
        THEN responses[j].data
        ELSE [error |-> "Failed to fetch response"]]

\* app.py:522-526: one coroutine per domain, each with the session's token
qa_tasks(domains_list, qa_list, token) ==
    [i \in 1..Len(domains_list) |->
        [state |-> "gathering",
         tasks |-> company_tasks(domains_list[i], qa_list, token),
         completion |-> <<>>,
         results |-> <<>>]]

IdleBatch ==
    [pc |-> "idle", domains_list |-> <<>>, qa_list |-> <<>>,
     coroutines |-> <<>>, completion |-> <<>>, results |-> <<>>]

----------------------------------------------------------------------------
(* Script runs.  Streamlit runs app.py from top to bottom for each user   *)
(* event; one action is one such run.                                     *)

AppModes == {"Crawl Company Website", "Ask Question"}

Event(name, input) == [event |-> name, input |-> input]

\* the run ends: s becomes st.session_state
Commit(s, ev) ==
    /\ authenticated' = s.authenticated
    /\ access_token' = s.access_token
    /\ companies' = s.companies
    /\ app_mode' = s.app_mode
    /\ messages' = s.messages
    /\ sent' = s.sent
    /\ last' = [event |-> ev.event, input |-> ev.input, notices |-> s.notices]
    /\ batch' = IdleBatch
    /\ UNCHANGED form

\* the answers a company-list call may get, when the run makes one
DirAnswers(called, dirs) == IF called THEN dirs ELSE {NoCall}

EmptyForm ==
    [company_domains |-> <<>>, crawl_type |-> "Lite Crawl", typed |-> <<>>]

\* every way to fill the form; the prompt area exists for Custom Prompt only
Forms ==
    {f \in [company_domains : SeqUpTo(Chars, MaxLen), crawl_type : CrawlTypes,
            typed : PromptTexts] :
        f.crawl_type = "Lite Crawl" => f.typed = <<>>}

\* the forms the session specification submits
SampleForms ==
    {f \in Forms :
        f.company_domains \in {<<>>, <<" ">>, <<"a">>, <<"a", Newline, "b">>}}

\* app.py:22-32
InitSession ==
    /\ authenticated = FALSE
    /\ access_token = None
    /\ companies = <<>>
    /\ app_mode = "Ask Question"
    /\ messages = <<>>
    /\ sent = <<>>
    /\ last = [event |-> "start", input |-> None, notices |-> <<>>]
    /\ batch = IdleBatch

Init == InitSession /\ form = EmptyForm

\* the Authenticate button (app.py:117-118), then the rest of the run
ClickAuthenticateWith(creds, auths, dirs) ==
    /\ batch.pc # "running"
    /\ \E cred \in creds, resp \in auths :
         \E d1 \in DirAnswers(OK(resp), dirs) :
           LET s1 == authenticate(Session, cred, resp, d1)
               s2 == select_mode(s1, s1.app_mode, NoCall)
           IN  \E d2 \in DirAnswers(PageFetches(s2), dirs) :
                 Commit(page(s2, d2), Event("authenticate", cred))

\* the user picks the other mode of the sidebar radio (app.py:128-144)
SelectModeWith(dirs) ==
    /\ batch.pc # "running"
    /\ \E choice \in AppModes \ {app_mode} :
         \E d1 \in DirAnswers(choice = "Ask Question" /\ authenticated, dirs) :
           LET s1 == select_mode(Session, choice, d1)
           IN  \E d2 \in DirAnswers(PageFetches(s1), dirs) :
                 Commit(page(s1, d2), Event("select_mode", choice))

\* any other widget of the sidebar changes: a run with nothing submitted
PlainRerun ==
    /\ batch.pc # "running"
    /\ LET s1 == select_mode(Session, app_mode, NoCall)
       IN  \E d2 \in DirAnswers(PageFetches(s1), DirResponses) :
             Commit(page(s1, d2), Event("rerun", None))

\* a direct call of fetch_companies()
FetchCompanies ==
    /\ batch.pc # "running"
    /\ \E resp \in DirAnswers(authenticated, DirResponses) :
         Commit(fetch_companies(Session, resp), Event("fetch_companies", None))

\* the chat input is submitted (app.py:374-478)
SubmitChat ==
    /\ batch.pc # "running"
    /\ ChatShown(Session)
    /\ Len(messages) + 2 <= MaxMessages
    /\ \E prompt \in Prompts, i \in 1..Len(domain_options(Session)) :
         LET s1 == select_mode(Session, app_mode, NoCall)
             s2 == ask_page(s1, NoCall)
             selected_domain == domain_options(s2)[i]
         IN  \E resp \in QAResponses(qa_payload(selected_domain,
                                                qa_dict(prompt)), Failures) :
               Commit(chat_submit(s2, prompt, selected_domain, resp),
                      Event("chat", [prompt |-> prompt,
                                     selected_domain |-> selected_domain]))

\* the Clear Chat History button (app.py:481-483), then the run st.rerun()
\* starts
ClickClear ==
    /\ batch.pc # "running"
    /\ ClearShown(Session)
    /\ LET s1 == clear_chat(ask_page(select_mode(Session, app_mode, NoCall),
                                     NoCall))
           s2 == select_mode(s1, s1.app_mode, NoCall)
       IN  Commit(page(s2, NoCall), Event("clear_chat", None))

\* the Start Crawling button with the form filled as f (app.py:219-306)
CrawlRun(f) ==
    /\ batch.pc # "running"
    /\ app_mode = "Crawl Company Website"
    /\ LET custom_prompt == custom_prompt_of(f.crawl_type, f.typed)
           s1 == select_mode(Session, app_mode, NoCall)
       IN  \E resp \in (IF CrawlSends(s1, f.company_domains, f.crawl_type,
                                      custom_prompt)
                        THEN CrawlResponses ELSE {NoCall}) :
             Commit(crawl_submit(s1, f.company_domains, f.crawl_type,
                                 custom_prompt, resp),
                    Event("crawl", [company_domains |-> f.company_domains,
                                    crawl_type |-> f.crawl_type,
                                    custom_prompt |-> custom_prompt]))

ClickAuthenticate ==
    ClickAuthenticateWith(Credentials, AuthResponses, DirResponses)

SelectMode == SelectModeWith(DirResponses)

SubmitCrawlSample == \E f \in SampleForms : CrawlRun(f)

\* the session: every user event of the page
Next ==
    \/ ClickAuthenticate
    \/ SelectMode
    \/ PlainRerun
    \/ FetchCompanies
    \/ SubmitChat
    \/ ClickClear
    \/ SubmitCrawlSample

Spec == Init /\ [][Next]_vars

----------------------------------------------------------------------------
(* The crawl form over every text of at most MaxLen characters: the form   *)
(* is filled before the first run, the session takes few backend answers.  *)

FewCredentials == {[username |-> "username", password |-> "password"]}
FewAuthResponses == {Http(200, [access |-> "tokA"]), Http(401, FailText)}
FewDirResponses == {Http(200, [companies |-> <<Acme>>]), Raised}

InitCrawl == InitSession /\ form \in Forms

ClickAuthenticateFew ==
    ClickAuthenticateWith(FewCredentials, FewAuthResponses, FewDirResponses)

SelectModeFew == SelectModeWith(FewDirResponses)

SubmitCrawl == CrawlRun(form)

NextCrawl ==
    \/ ClickAuthenticateFew
    \/ SelectModeFew
    \/ SubmitCrawl

SpecCrawl == InitCrawl /\ [][NextCrawl]_vars

----------------------------------------------------------------------------
(* A call of fetch_qa_responses, step by step                              *)

BatchDomains == {"acme.com", "x.com"}
QALists == {<<>>, <<qa_dict("Q1")>>, <<qa_dict("Q1"), qa_dict("Q2")>>}
BatchFailures == {Http(500, FailText), Raised}

\* fetch_qa_responses(domains_list, qa_list) is called (app.py:518-527):
\* every request of the matrix becomes a task
CallBatch ==
    /\ batch.pc # "running"
    /\ \E domains_list \in SeqUpTo(BatchDomains, MaxDomains),
          qa_list \in QALists :
         /\ batch' = [pc |-> "running",
                      domains_list |-> domains_list,
                      qa_list |-> qa_list,
                      coroutines |-> qa_tasks(domains_list, qa_list,
                                              access_token),
                      completion |-> <<>>,
                      results |-> <<>>]
         /\ last' = [event |-> "batch", input |-> None, notices |-> <<>>]
    /\ sent' = <<>>
    /\ UNCHANGED <<authenticated, access_token, companies, app_mode,
                   messages, form>>

\* an exception is on its way up: a gather has a raised awaitable and the
\* coroutine awaiting it has not yet resumed
Unwinding ==
    \E i \in 1..Len(batch.coroutines) :
        \/ batch.coroutines[i].state = "raised"
        \/ /\ batch.coroutines[i].state = "gathering"
           /\ GatherRaises(batch.coroutines[i].tasks)

\* one request of a domain that is still gathering completes; an exception
\* reaches the caller before the next request completes
Complete ==
    /\ batch.pc = "running"
    /\ ~Unwinding
    /\ \E i \in 1..Len(batch.coroutines) :
         /\ batch.coroutines[i].state = "gathering"
         /\ \E j \in 1..Len(batch.coroutines[i].tasks) :
              /\ batch.coroutines[i].tasks[j].resp = Pending
              /\ \E resp \in QAResponses(batch.coroutines[i].tasks[j].payload,
                                         BatchFailures) :
                   batch' = [batch EXCEPT
                       !.coroutines[i].tasks[j].resp = resp,
                       !.coroutines[i].completion = Append(@, j)]
    /\ UNCHANGED <<authenticated, access_token, companies, app_mode,
                   messages, sent, last, form>>

\* app.py:508-515: the gather of one domain returns and the results are built
CompanyReturns ==
    /\ batch.pc = "running"
    /\ \E i \in 1..Len(batch.coroutines) :
         LET c == batch.coroutines[i]
             responses == gather([j \in 1..Len(c.tasks) |-> c.tasks[j].resp],
                                 c.completion)
         IN  /\ c.state = "gathering"
             /\ GatherReady(c.tasks)
             /\ batch' = [batch EXCEPT
                    !.coroutines[i].state = "returned",
                    !.coroutines[i].results = company_results(responses),
                    !.completion = Append(@, i)]
    /\ UNCHANGED <<authenticated, access_token, companies, app_mode,
                   messages, sent, last, form>>

\* app.py:508: the gather of one domain raises what a request raised
CompanyRaises ==
    /\ batch.pc = "running"
    /\ \E i \in 1..Len(batch.coroutines) :
         /\ batch.coroutines[i].state = "gathering"
         /\ GatherRaises(batch.coroutines[i].tasks)
         /\ batch' = [batch EXCEPT !.coroutines[i].state = "raised"]
    /\ UNCHANGED <<authenticated, access_token, companies, app_mode,
                   messages, sent, last, form>>

\* app.py:527-528: the gather over the domains returns
BatchReturns ==
    /\ batch.pc = "running"
    /\ \A i \in 1..Len(batch.coroutines) :
         batch.coroutines[i].state = "returned"
    /\ batch' = [batch EXCEPT
           !.pc = "returned",
           !.results = gather([i \in 1..Len(batch.coroutines) |->
                                  batch.coroutines[i].results],
                              batch.completion)]
    /\ UNCHANGED <<authenticated, access_token, companies, app_mode,
                   messages, sent, last, form>>

\* app.py:527: the gather over the domains raises what a domain raised; the
\* caller gets the exception and nothing of the coroutines
BatchRaises ==
    /\ batch.pc = "running"
    /\ \E i \in 1..Len(batch.coroutines) :
         batch.coroutines[i].state = "raised"
    /\ batch' = [batch EXCEPT !.pc = "raised", !.coroutines = <<>>,
                              !.completion = <<>>]
    /\ UNCHANGED <<authenticated, access_token, companies, app_mode,
                   messages, sent, last, form>>

\* the session of the batch specification: one way in, one way out
ClickAuthenticateOne ==
    ClickAuthenticateWith(FewCredentials, FewAuthResponses,
                          {Http(200, [companies |-> <<Acme>>])})

NextBatch ==
    \/ ClickAuthenticateOne
    \/ CallBatch
    \/ Complete
    \/ CompanyReturns
    \/ CompanyRaises
    \/ BatchReturns
    \/ BatchRaises

SpecBatch == Init /\ [][NextBatch]_vars

----------------------------------------------------------------------------
(* Properties *)

TokenPresent == access_token # None /\ access_token # ""

IsUrl(e, url) == e.url = url

\* the exchanges of the latest run with one endpoint
SentTo(log, url) == LET to(e) == IsUrl(e, url) IN SelectSeq(log, to)

\* the domains of the companies the session knows
CompanyDomains == {companies[k].company_domain : k \in 1..Len(companies)}

\* C1: in every reachable session state the access token is present
\* (neither None nor empty) if and only if authenticated is true.
C1_TokenIffAuthenticated == TokenPresent <=> authenticated

\* C2: when authenticate has returned, either authenticated is true, the
\* token is non-empty and a company-list fetch was performed, or
\* authenticated is false and the token is cleared.
C2_AuthenticateOutcome ==
    last.event = "authenticate" =>
        \/ /\ authenticated
           /\ TokenPresent
           /\ SentTo(sent, "/company_list/") # <<>>
        \/ /\ ~authenticated
           /\ access_token = None

\* the entry of the batch result for one failed request
ErrorEntry == [error |-> "Failed to fetch response"]

\* C3: a call of fetch_qa_responses never ends by raising; it returns, and
\* in what it returns every failed request (non-200 or transport error) is
\* an error entry at its own position and every request that succeeded is
\* its answer.
C3_FailureIsAnEntry ==
    /\ batch.pc # "raised"
    /\ batch.pc = "returned" =>
         \A i \in 1..Len(batch.coroutines) :
           \A j \in 1..Len(batch.coroutines[i].tasks) :
             LET resp == batch.coroutines[i].tasks[j].resp
             IN  batch.results[i][j] =
                     IF OK(resp) THEN resp.data ELSE ErrorEntry

\* C4: what fetch_qa_responses returns has one inner sequence per domain,
\* in the order of domains_list, each with one entry per question, in the
\* order of qa_list: entry [i][j] is the outcome of asking question j about
\* domain i, whatever the order in which the requests completed.
C4_OrderPreserved ==
    batch.pc = "returned" =>
        /\ Len(batch.results) = Len(batch.domains_list)
        /\ \A i \in 1..Len(batch.domains_list) :
             /\ Len(batch.results[i]) = Len(batch.qa_list)
             /\ \A j \in 1..Len(batch.qa_list) :
                  batch.results[i][j] =
                      IF OK(batch.coroutines[i].tasks[j].resp)
                      THEN Answer(qa_payload(batch.domains_list[i],
                                             batch.qa_list[j]))
                      ELSE ErrorEntry

\* C4: a call over two different domains and two questions has returned,
\* the second question of the first domain answered before its first and
\* the second domain finished before the first.
C4_Witness ==
    /\ batch.pc = "returned"
    /\ Len(batch.domains_list) = 2
    /\ batch.domains_list[1] # batch.domains_list[2]
    /\ Len(batch.qa_list) = 2
    /\ batch.coroutines[1].completion = <<2, 1>>
    /\ batch.completion = <<2, 1>>
    /\ \A j \in 1..2 : OK(batch.coroutines[1].tasks[j].resp)

\* every character of the text is whitespace (the empty text included)
Blank(text) == \A k \in 1..Len(text) : text[k] \in Whitespace

\* C5: a crawl submission whose domains text is empty or blank, or whose
\* mode is custom with an empty or absent prompt, is rejected with a notice
\* and sends no request.
C5_CrawlRejectsLocally ==
    (/\ last.event = "crawl"
     /\ \/ Blank(last.input.company_domains)
        \/ /\ last.input.crawl_type = "Custom Prompt"
           /\ last.input.custom_prompt \in {<<>>, NoText})
    => /\ sent = <<>>
       /\ last.notices # <<>>

\* C5: an authenticated session submitted a text of blank lines only, and
\* nothing was sent.
C5_Witness ==
    /\ last.event = "crawl"
    /\ authenticated
    /\ Len(last.input.company_domains) >= 2
    /\ Blank(last.input.company_domains)
    /\ sent = <<>>

\* C6: the company_domains of every crawl request sent is non-empty, its
\* elements are trimmed and non-blank, and no domain occurs in it twice.
C6_DomainsDeduplicated ==
    \A k \in 1..Len(sent) :
        sent[k].url = "/company_crawl/" =>
            LET domains == sent[k].payload.company_domains
            IN  /\ domains # <<>>
                /\ \A d \in 1..Len(domains) :
                     domains[d] # <<>> /\ Strip(domains[d]) = domains[d]
                /\ NoDuplicates(domains)

\* C7: every request to /company_qa/, of the chat or of the batch helpers,
\* is sent while the session is authenticated and for a domain of the
\* companies the session knows.
C7_QARequiresSession ==
    /\ \A k \in 1..Len(sent) :
         sent[k].url = "/company_qa/" =>
             /\ authenticated
             /\ sent[k].payload.company_domain \in CompanyDomains
    /\ batch.pc = "running" =>
         \A i \in 1..Len(batch.coroutines) :
           \A j \in 1..Len(batch.coroutines[i].tasks) :
             /\ authenticated
             /\ batch.coroutines[i].tasks[j].payload.company_domain
                    \in CompanyDomains

\* a chat run whose QA call failed: a non-200 answer or an exception
ChatFailed(log, ev) ==
    /\ ev.event = "chat"
    /\ Len(log) = 1
    /\ ~OK(log[1].resp)

\* C8: a chat run whose QA call failed (non-200 or exception) appends to
\* the history the user's entry and then exactly one entry, of role
\* assistant, whose content starts with the warning marker.
C8_FailureKeptInHistory ==
    [][ChatFailed(sent', last') =>
          /\ Len(messages') = Len(messages) + 2
          /\ SubSeq(messages', 1, Len(messages)) = messages
          /\ messages'[Len(messages) + 1].role = "user"
          /\ messages'[Len(messages) + 2].role = "assistant"
          /\ Head(messages'[Len(messages) + 2].content) = WarningMarker]_vars

\* C8: a chat call raised and the history ends with the warning entry.
C8_Witness ==
    /\ ChatFailed(sent, last)
    /\ sent[1].resp.exc
    /\ messages[Len(messages)].role = "assistant"
    /\ Head(messages[Len(messages)].content) = WarningMarker

\* the 200 answers among the company-list exchanges of a run
ListsReceived(log) ==
    LET ok(e) == IsUrl(e, "/company_list/") /\ OK(e.resp)
    IN  SelectSeq(log, ok)

\* C9: a run changes companies only by replacing it with the list of a 200
\* answer of /company_list/ (the latest one of the run); without such an
\* answer (failure, or no call) the list stays as it was, and
\* fetch_companies called while not authenticated sends nothing.
C9_FetchReplacesWholesale ==
    [][LET lists == ListsReceived(sent')
       IN  /\ lists = <<>> => companies' = companies
           /\ lists # <<>> =>
                companies' = lists[Len(lists)].resp.data.companies
           /\ (last'.event = "fetch_companies" /\ ~authenticated) =>
                /\ sent' = <<>>
                /\ companies' = companies
                /\ access_token' = access_token
                /\ authenticated' = authenticated]_vars

\* C9: a direct fetch failed and the list fetched earlier is still there.
C9_Witness ==
    /\ last.event = "fetch_companies"
    /\ Len(sent) = 1
    /\ ~OK(sent[1].resp)
    /\ companies # <<>>

\* C10: the payload of a crawl request sent: in lite mode the domains in
\* input order, lite_crawl true and no prompt key; in custom mode
\* lite_crawl false and the prompt key with the user's prompt.
C10_PayloadByMode ==
    \A k \in 1..Len(sent) :
        sent[k].url = "/company_crawl/" =>
            LET p == sent[k].payload
                custom == last.input.crawl_type = "Custom Prompt"
            IN  /\ DOMAIN p \in {{"company_domains", "lite_crawl"},
                                 {"company_domains", "lite_crawl", "prompt"}}
                /\ p.company_domains = parse_domains(last.input.company_domains)
                /\ p.lite_crawl = ~custom
                /\ ("prompt" \in DOMAIN p) <=> custom
                /\ custom => p.prompt = last.input.custom_prompt

\* C10: a lite crawl of two domains was sent.
C10_Witness ==
    /\ last.event = "crawl"
    /\ last.input.crawl_type = "Lite Crawl"
    /\ last.input.company_domains = <<"a", Newline, "b">>
    /\ Len(sent) = 1
    /\ sent[1].payload = [company_domains |-> << <<"a">>, <<"b">> >>,
                          lite_crawl |-> TRUE]

\* the run had a request for the company list, a crawl or an answer that
\* failed: a non-200 answer or an exception
FailedOperation(log) ==
    \E k \in 1..Len(log) :
        /\ log[k].url \in {"/company_list/", "/company_crawl/", "/company_qa/"}
        /\ ~OK(log[k].resp)

\* a run with a failed operation leaves authenticated and access_token as
\* they were; in a run of the Authenticate button, as the 200 answer of
\* /auth/token/ set them
FailureKeepsSession ==
    FailedOperation(sent') =>
        IF last'.event = "authenticate"
        THEN /\ authenticated'
             /\ access_token' = sent'[1].resp.data.access
        ELSE /\ authenticated' = authenticated
             /\ access_token' = access_token

\* the session demands re-authentication while it still holds a token
ReauthenticationWithToken == ~authenticated /\ TokenPresent

\* C11: a run in which a company-list fetch, a crawl submission or a QA
\* request failed leaves authenticated and access_token unchanged, and the
\* session never demands re-authentication (authenticated false) while it
\* still holds its token.
C11_FailureLeavesSessionUsable ==
    [][FailureKeepsSession /\ ~ReauthenticationWithToken']_vars

\* the history is a sequence of pairs: a user entry, then an assistant entry
Paired(history) ==
    /\ Len(history) % 2 = 0
    /\ \A k \in 1..Len(history) :
         history[k].role = IF k % 2 = 1 THEN "user" ELSE "assistant"

\* C12: the chat history is always a sequence of user/assistant pairs, and
\* a run changes it in two ways only: a submitted question appends one user
\* entry with the question and, right after it, one assistant entry, the
\* entries before them untouched; the Clear Chat History button empties it.
C12_HistoryOfPairs ==
    [][/\ Paired(messages')
       /\ \/ messages' = messages
          \/ /\ last'.event = "chat"
             /\ Len(messages') = Len(messages) + 2
             /\ SubSeq(messages', 1, Len(messages)) = messages
             /\ messages'[Len(messages) + 1] =
                    [role |-> "user", content |-> <<last'.input.prompt>>]
             /\ messages'[Len(messages) + 2].role = "assistant"
          \/ /\ last'.event = "clear_chat"
             /\ messages # <<>>
             /\ messages' = <<>>]_vars

\* C12: a question that failed was appended after a question that was
\* answered.
C12_Witness ==
    /\ last.event = "chat"
    /\ Len(messages) = 4
    /\ Paired(messages)
    /\ "json_output" \in DOMAIN messages[2]
    /\ Head(messages[4].content) = WarningMarker

====
